---- MODULE Spec2Model ----
(***************************************************************************)
(* Model of the user CRUD service of src/main.go: the users table, the     *)
(* five HTTP handlers, the data-access functions they call, and            *)
(* User.Validate / isValidEmail.                                           *)
(*                                                                         *)
(* Strings the code inspects character by character (the email, the path   *)
(* segment {id}) are sequences of one-character strings; the name, which   *)
(* the code only compares with "", is a plain string.                      *)
(***************************************************************************)
EXTENDS Integers, Sequences, FiniteSets

\* ---------------------------------------------------------------- bounds
\* Highest id the AUTO_INCREMENT counter hands out before inserts stop.
MaxId == 2
\* Longest email enumerated when Validate is checked on its own.
MaxLen == 6

\* The requests in flight at once, one goroutine each. A handler touches the
\* table in one statement only, so two slots interleave every pair of statements.
Reqs == {1, 2}
IDs == 1..MaxId

\* ------------------------------------------------------------ characters
Lower == {"a","b","c","d","e","f","g","h","i","j","k","l","m",
          "n","o","p","q","r","s","t","u","v","w","x","y","z"}
Upper == {"A","B","C","D","E","F","G","H","I","J","K","L","M",
          "N","O","P","Q","R","S","T","U","V","W","X","Y","Z"}
Digits == {"0","1","2","3","4","5","6","7","8","9"}
Letters == Lower \cup Upper
\* the three character classes of the pattern of isValidEmail
LocalChars == Letters \cup Digits \cup {".", "_", "%", "+", "-"}
DomainChars == Letters \cup Digits \cup {".", "-"}
TldChars == Letters

\* ^[a-zA-Z0-9._%+-]+@[a-zA-Z0-9.-]+\.[a-zA-Z]{2,}$ : some "@" at i and some
\* "." at j split the whole text into local part, domain and top-level domain.
isValidEmail(email) ==
    \E i \in 1..Len(email) : \E j \in 1..Len(email) :
        /\ email[i] = "@"
        /\ email[j] = "."
        /\ i >= 2
        /\ \A k \in 1..(i-1) : email[k] \in LocalChars
        /\ j >= i + 2
        /\ \A k \in (i+1)..(j-1) : email[k] \in DomainChars
        /\ Len(email) - j >= 2
        /\ \A k \in (j+1)..Len(email) : email[k] \in TldChars

\* ------------------------------------------------------------------ User
NoErr == "nil"
ErrNameRequired == "name is required"
ErrEmailRequired == "email is required"
ErrInvalidEmail == "invalid email format"

ZeroUser == [ID |-> 0, Name |-> "", Email |-> <<>>]

\* mutant: the format check is skipped
ValidateNoFormat(u) ==
    IF u.Name = "" THEN ErrNameRequired
    ELSE IF u.Email = <<>> THEN ErrEmailRequired
    ELSE NoErr

\* mutant: the email checks come before the name check
ValidateEmailFirst(u) ==
    IF u.Email = <<>> THEN ErrEmailRequired
    ELSE IF ~isValidEmail(u.Email) THEN ErrInvalidEmail
    ELSE IF u.Name = "" THEN ErrNameRequired
    ELSE NoErr

Validate(u) ==
    IF u.Name = "" THEN ErrNameRequired
    ELSE IF u.Email = <<>> THEN ErrEmailRequired
    ELSE IF ~isValidEmail(u.Email) THEN ErrInvalidEmail
    ELSE NoErr

\* ------------------------------------------------------- requests' inputs
\* strconv.Itoa for one digit, used to write the path segments of the ids
DigitSeq == <<"0","1","2","3","4","5","6","7","8","9">>
Itoa(n) == <<DigitSeq[n + 1]>>

\* the path segment {id}: the decimal ids, and the non-numeric "abc"
RawIDs == {<<"a","b","c">>} \cup {Itoa(i) : i \in IDs}

DigitVal(c) == CHOOSE k \in 0..9 : DigitSeq[k + 1] = c

RECURSIVE DecimalValue(_)
DecimalValue(s) ==
    IF s = <<>> THEN 0
    ELSE 10 * DecimalValue(SubSeq(s, 1, Len(s) - 1)) + DigitVal(s[Len(s)])

ErrSyntax == "strconv.Atoi: invalid syntax"

\* strconv.Atoi: an optional sign, then one or more decimal digits
Atoi(s) ==
    LET signed == s # <<>> /\ s[1] \in {"+", "-"}
        digits == IF signed THEN Tail(s) ELSE s
    IN  IF digits = <<>> \/ \E k \in 1..Len(digits) : digits[k] \notin Digits
        THEN [n |-> 0, err |-> ErrSyntax]
        ELSE [n |-> IF signed /\ s[1] = "-" THEN 0 - DecimalValue(digits)
                    ELSE DecimalValue(digits),
              err |-> NoErr]

\* mutant: the error of strconv.Atoi is dropped
parseIDNoError(raw) == [n |-> Atoi(raw).n, err |-> NoErr]

\* parseID: the route variable "id" through strconv.Atoi
parseID(raw) == Atoi(raw)

\* a body is malformed JSON, or a JSON object whose absent fields are zero
Body(id, name, email) == [wellFormed |-> TRUE, ID |-> id, Name |-> name, Email |-> email]
\* the bodies a client sends: not JSON; {}; no name; no email; an email without a
\* top-level domain; two valid users, the second with an "id" field of its own
Bodies == {[wellFormed |-> FALSE, ID |-> 0, Name |-> "", Email |-> <<>>],
           Body(0, "", <<>>),
           Body(0, "", <<"a","@","b",".","c","o">>),
           Body(0, "Ann", <<>>),
           Body(0, "Ann", <<"a","@","b">>),
           Body(0, "Ann", <<"a","@","b",".","c","o">>),
           Body(1, "Ann2", <<"b","@","c",".","i","o">>)}

ErrJSON == "invalid character"

\* json.NewDecoder(r.Body).Decode(&user): absent fields keep their zero value
Decode(b) ==
    IF ~b.wellFormed THEN [user |-> ZeroUser, err |-> ErrJSON]
    ELSE [user |-> [ID |-> b.ID, Name |-> b.Name, Email |-> b.Email], err |-> NoErr]

\* ------------------------------------------------------------ data access
\* The users table is a set of rows [ID, Name, Email] with ID the primary key.
\* A statement either runs or fails at the store (unreachable, rejected):
StoreOutcomes == {NoErr, "store error"}
ErrNoRows == "sql: no rows in result set"

RECURSIVE RowsInOrder(_)
\* the rows of a SELECT, in primary-key order
RowsInOrder(t) ==
    IF t = {} THEN <<>>
    ELSE LET first == CHOOSE x \in t : \A y \in t : x.ID <= y.ID
         IN  <<first>> \o RowsInOrder(t \ {first})

\* a Go slice: nil until the first append
NilSlice == [isNil |-> TRUE, elems |-> <<>>]
AppendSlice(sl, x) == [isNil |-> FALSE, elems |-> Append(sl.elems, x)]

RECURSIVE ScanAll(_, _)
\* the rows.Next() loop: append each scanned row to users
ScanAll(sl, rows) ==
    IF rows = <<>> THEN sl
    ELSE ScanAll(AppendSlice(sl, Head(rows)), Tail(rows))

GetAllUsers(t, serr) ==
    IF serr # NoErr THEN [users |-> NilSlice, err |-> serr]
    ELSE [users |-> ScanAll(NilSlice, RowsInOrder(t)), err |-> NoErr]

\* users.id is PRIMARY KEY AUTOINCREMENT: an insert that names no id is given
\* the counter's value, and the counter moves on, never back
AutoIncrement(next) == [id |-> next, next |-> next + 1]

\* mutant: the name is not bound to the INSERT
CreateUserNoName(t, next, name, email, serr) ==
    IF serr # NoErr THEN [table |-> t, next |-> next, err |-> serr]
    ELSE [table |-> t \cup {[ID |-> AutoIncrement(next).id, Name |-> "", Email |-> email]},
          next |-> AutoIncrement(next).next, err |-> NoErr]

\* INSERT INTO users (name, email): the store assigns the id
CreateUser(t, next, name, email, serr) ==
    IF serr # NoErr THEN [table |-> t, next |-> next, err |-> serr]
    ELSE [table |-> t \cup {[ID |-> AutoIncrement(next).id, Name |-> name, Email |-> email]},
          next |-> AutoIncrement(next).next, err |-> NoErr]

NilUser == [isNil |-> TRUE, val |-> ZeroUser]

\* mutant: a missing row is returned as the zero User with no error
GetUserZero(t, id, serr) ==
    IF serr # NoErr THEN [user |-> NilUser, err |-> serr]
    ELSE IF \E x \in t : x.ID = id
         THEN [user |-> [isNil |-> FALSE, val |-> CHOOSE x \in t : x.ID = id], err |-> NoErr]
         ELSE [user |-> [isNil |-> FALSE, val |-> ZeroUser], err |-> NoErr]

\* SELECT ... WHERE id = ?, then row.Scan: no row is the error sql.ErrNoRows
GetUser(t, id, serr) ==
    IF serr # NoErr THEN [user |-> NilUser, err |-> serr]
    ELSE IF \E x \in t : x.ID = id
         THEN [user |-> [isNil |-> FALSE, val |-> CHOOSE x \in t : x.ID = id], err |-> NoErr]
         ELSE [user |-> NilUser, err |-> ErrNoRows]

\* mutant: the UPDATE has no WHERE clause
UpdateUserAll(t, id, name, email, serr) ==
    IF serr # NoErr THEN [table |-> t, err |-> serr]
    ELSE [table |-> {[x EXCEPT !.Name = name, !.Email = email] : x \in t}, err |-> NoErr]

\* mutant: a missing row is inserted (an upsert)
UpdateUserUpsert(t, id, name, email, serr) ==
    IF serr # NoErr THEN [table |-> t, err |-> serr]
    ELSE IF \E x \in t : x.ID = id
         THEN [table |-> {IF x.ID = id THEN [x EXCEPT !.Name = name, !.Email = email] ELSE x
                          : x \in t},
               err |-> NoErr]
         ELSE [table |-> t \cup {[ID |-> id, Name |-> name, Email |-> email]}, err |-> NoErr]

\* UPDATE users SET name = ?, email = ? WHERE id = ?: no matching row is no error
UpdateUser(t, id, name, email, serr) ==
    IF serr # NoErr THEN [table |-> t, err |-> serr]
    ELSE [table |-> {IF x.ID = id THEN [x EXCEPT !.Name = name, !.Email = email] ELSE x
                     : x \in t},
          err |-> NoErr]

\* mutant: the DELETE reports success without removing the row
DeleteUserKeep(t, id, serr) ==
    IF serr # NoErr THEN [table |-> t, err |-> serr]
    ELSE [table |-> t, err |-> NoErr]

\* DELETE FROM users WHERE id = ?: no matching row is no error
DeleteUser(t, id, serr) ==
    IF serr # NoErr THEN [table |-> t, err |-> serr]
    ELSE [table |-> {x \in t : x.ID # id}, err |-> NoErr]

\* sql.Open with the registered driver and the constant data source name of
\* lines 16-21 only builds the handle (it dials at the first statement): no error
dbConnection == [db |-> "open", err |-> NoErr]

\* ------------------------------------------------------------- responses
StatusOK == 200
StatusCreated == 201
StatusBadRequest == 400
StatusNotFound == 404
StatusInternalServerError == 500

NoBody == [kind |-> "none", text |-> "", data |-> <<>>]
Text(msg) == [kind |-> "text", text |-> msg, data |-> <<>>]
\* json.Encoder.Encode of a []User: a nil slice is written as null
EncodeUsers(sl) ==
    IF sl.isNil THEN [kind |-> "null", text |-> "", data |-> <<>>]
    ELSE [kind |-> "array", text |-> "", data |-> sl.elems]
\* json.Encoder.Encode of a *User
EncodeUser(ptr) ==
    IF ptr.isNil THEN [kind |-> "null", text |-> "", data |-> <<>>]
    ELSE [kind |-> "object", text |-> "", data |-> <<ptr.val>>]

\* ----------------------------------------------------------------- state
VARIABLES
    users,      \* the users table: a set of rows
    autoInc,    \* the id the store assigns to the next inserted row
    pc,         \* per request: where its handler stands
    op,         \* per request: the route it was dispatched to
    rawID,      \* per request: the path segment {id}
    userID,     \* per request: the parsed id
    user,       \* per request: the decoded and validated body, while the handler runs
    defers,     \* per request: the handler's stack of deferred calls
    status,     \* per request: the response's status code (0: none written)
    body,       \* per request: the response's body
    log,        \* per request: the store accesses made, in order
    matched,    \* per request: rows its statement reached (-1: none ran, or it failed)
    issued,     \* per Delete: whether the store had issued its id when it ran
    late,       \* per Get: the Delete of its id that had answered when it arrived
    u,          \* the User handed to Validate on its own
    verr        \* what that Validate returned

vars == <<users, autoInc, pc, op, rawID, userID, user, defers, status, body,
          log, matched, issued, late, u, verr>>

Ops == {"list", "create", "get", "update", "delete"}
IdOps == {"get", "update", "delete"}

InitRequests ==
    /\ pc = [r \in Reqs |-> "idle"]
    /\ op = [r \in Reqs |-> "none"]
    /\ rawID = [r \in Reqs |-> <<>>]
    /\ userID = [r \in Reqs |-> 0]
    /\ user = [r \in Reqs |-> ZeroUser]
    /\ defers = [r \in Reqs |-> <<>>]
    /\ status = [r \in Reqs |-> 0]
    /\ body = [r \in Reqs |-> NoBody]
    /\ log = [r \in Reqs |-> <<>>]
    /\ matched = [r \in Reqs |-> -1]
    /\ issued = [r \in Reqs |-> FALSE]
    /\ late = [r \in Reqs |-> "no"]

Init ==
    /\ users = {}
    /\ autoInc = 1
    /\ InitRequests
    /\ u = ZeroUser
    /\ verr = "unset"

\* ---------------------------------------------------------------- handlers
\* defer db.Close()
RegisterCloseMissing(stack) == stack
RegisterClose(stack) == <<"db.Close">> \o stack

RECURSIVE RunDeferred(_, _)
\* the deferred calls run, last registered first, when the handler returns
RunDeferred(lg, stack) ==
    IF stack = <<>> THEN lg
    ELSE RunDeferred(Append(lg, "close"), Tail(stack))

\* the handler writes its response and returns
Return(r, code, b, lg, m) ==
    /\ pc' = [pc EXCEPT ![r] = "done"]
    /\ status' = [status EXCEPT ![r] = code]
    /\ body' = [body EXCEPT ![r] = b]
    /\ log' = [log EXCEPT ![r] = RunDeferred(lg, defers[r])]
    /\ defers' = [defers EXCEPT ![r] = <<>>]
    /\ matched' = [matched EXCEPT ![r] = m]
    /\ user' = [user EXCEPT ![r] = ZeroUser]

\* how many rows of the table a statement with WHERE id = ? matches
Matching(t, id) == Cardinality({x \in t : x.ID = id})

\* whether a Delete of the id written `raw` has answered success by now, and
\* whether the store had issued that id when the Delete ran
Answered(raw) ==
    LET dels == {d \in Reqs : /\ pc[d] = "done" /\ op[d] = "delete"
                              /\ status[d] = StatusOK
                              /\ parseID(raw).err = NoErr
                              /\ userID[d] = parseID(raw).n}
    IN  IF \E d \in dels : issued[d] THEN "issued"
        ELSE IF dels # {} THEN "unissued"
        ELSE "no"

\* the router dispatches a request to its handler
Arrive(r) ==
    /\ pc[r] = "idle"
    /\ \E o \in Ops : \E p \in (IF o \in IdOps THEN RawIDs ELSE {<<>>}) :
        /\ op' = [op EXCEPT ![r] = o]
        /\ rawID' = [rawID EXCEPT ![r] = p]
        /\ late' = [late EXCEPT ![r] = IF o = "get" THEN Answered(p) ELSE "no"]
    /\ pc' = [pc EXCEPT ![r] = "connect"]
    /\ UNCHANGED <<users, autoInc, userID, user, defers, status, body, log, matched,
                   issued, u, verr>>

\* db, err := dbConnection(); defer db.Close()
Connect(r) ==
    /\ pc[r] = "connect"
    /\ IF dbConnection.err # NoErr
       THEN /\ Return(r, StatusInternalServerError,
                      Text("Failed to connect to the database"), log[r], -1)
       ELSE /\ log' = [log EXCEPT ![r] = Append(log[r], "open")]
            /\ defers' = [defers EXCEPT ![r] = RegisterClose(defers[r])]
            /\ pc' = [pc EXCEPT ![r] = IF op[r] = "list" THEN "exec"
                                        ELSE IF op[r] = "create" THEN "decode"
                                        ELSE "parse"]
            /\ UNCHANGED <<status, body, matched, user>>
    /\ UNCHANGED <<users, autoInc, op, rawID, userID, issued, late, u, verr>>

\* userID, err := parseID(r)
ParseID(r) ==
    /\ pc[r] = "parse"
    /\ LET parsed == parseID(rawID[r])
       IN  IF parsed.err # NoErr
           THEN /\ Return(r, StatusBadRequest, Text("Invalid user ID"), log[r], -1)
                /\ UNCHANGED userID
           ELSE /\ userID' = [userID EXCEPT ![r] = parsed.n]
                /\ pc' = [pc EXCEPT ![r] = IF op[r] = "update" THEN "decode" ELSE "exec"]
                /\ UNCHANGED <<defers, status, body, log, matched, user>>
    /\ UNCHANGED <<users, autoInc, op, rawID, issued, late, u, verr>>

\* json.NewDecoder(r.Body).Decode(&user), then user.Validate()
DecodeValidate(r) ==
    /\ pc[r] = "decode"
    /\ \E b \in Bodies :
        LET decoded == Decode(b)
            invalid == Validate(decoded.user)
        IN  IF decoded.err # NoErr
            THEN /\ Return(r, StatusBadRequest, Text("Invalid input"), log[r], -1)
            ELSE IF invalid # NoErr
            THEN /\ Return(r, StatusBadRequest, Text(invalid), log[r], -1)
            ELSE /\ user' = [user EXCEPT ![r] = decoded.user]
                 /\ pc' = [pc EXCEPT ![r] = "exec"]
                 /\ UNCHANGED <<defers, status, body, log, matched>>
    /\ UNCHANGED <<users, autoInc, op, rawID, userID, issued, late, u, verr>>

\* getAllUsersHandler from GetAllUsers(db) on
ListExec(r) ==
    /\ pc[r] = "exec" /\ op[r] = "list"
    /\ \E serr \in StoreOutcomes :
        LET got == GetAllUsers(users, serr)
            lg == Append(log[r], "query")
            m == IF serr # NoErr THEN -1 ELSE Cardinality(users)
        IN  IF got.err # NoErr
            THEN Return(r, StatusNotFound, Text("User not found"), lg, m)
            ELSE Return(r, StatusOK, EncodeUsers(got.users), lg, m)
    /\ UNCHANGED <<users, autoInc, op, rawID, userID, issued, late, u, verr>>

\* createUserHandler from CreateUser(db, user.Name, user.Email) on
CreateExec(r) ==
    /\ pc[r] = "exec" /\ op[r] = "create"
    /\ autoInc <= MaxId
    /\ \E serr \in StoreOutcomes :
        LET done == CreateUser(users, autoInc, user[r].Name, user[r].Email, serr)
            lg == Append(log[r], "exec")
            m == IF serr # NoErr THEN -1 ELSE 1
        IN  /\ users' = done.table
            /\ autoInc' = done.next
            /\ IF done.err # NoErr
               THEN Return(r, StatusInternalServerError, Text("Failed to create user"), lg, m)
               ELSE Return(r, StatusCreated, Text("User created successfully"), lg, m)
    /\ UNCHANGED <<op, rawID, userID, issued, late, u, verr>>

\* getUserHandler from GetUser(db, userID) on
GetExec(r) ==
    /\ pc[r] = "exec" /\ op[r] = "get"
    /\ \E serr \in StoreOutcomes :
        LET got == GetUser(users, userID[r], serr)
            lg == Append(log[r], "query")
            m == IF serr # NoErr THEN -1 ELSE Matching(users, userID[r])
        IN  IF got.err # NoErr
            THEN Return(r, StatusNotFound, Text("User not found"), lg, m)
            ELSE Return(r, StatusOK, EncodeUser(got.user), lg, m)
    /\ UNCHANGED <<users, autoInc, op, rawID, userID, issued, late, u, verr>>

\* updateUserHandler from UpdateUser(db, userID, user.Name, user.Email) on
UpdateExec(r) ==
    /\ pc[r] = "exec" /\ op[r] = "update"
    /\ \E serr \in StoreOutcomes :
        LET done == UpdateUser(users, userID[r], user[r].Name, user[r].Email, serr)
            lg == Append(log[r], "exec")
            m == IF serr # NoErr THEN -1 ELSE Matching(users, userID[r])
        IN  /\ users' = done.table
            /\ IF done.err # NoErr
               THEN Return(r, StatusInternalServerError, Text("Failed to update user"), lg, m)
               ELSE Return(r, StatusOK, Text("User updated successfully"), lg, m)
    /\ UNCHANGED <<autoInc, op, rawID, userID, issued, late, u, verr>>

\* deleteUserHandler from DeleteUser(db, userID) on
DeleteExec(r) ==
    /\ pc[r] = "exec" /\ op[r] = "delete"
    /\ \E serr \in StoreOutcomes :
        LET done == DeleteUser(users, userID[r], serr)
            lg == Append(log[r], "exec")
            m == IF serr # NoErr THEN -1 ELSE Matching(users, userID[r])
        IN  /\ users' = done.table
            /\ IF done.err # NoErr
               THEN Return(r, StatusInternalServerError, Text("Failed to delete user"), lg, m)
               ELSE Return(r, StatusOK, Text("User deleted successfully"), lg, m)
            /\ issued' = [issued EXCEPT ![r] = userID[r] < autoInc]
    /\ UNCHANGED <<autoInc, op, rawID, userID, late, u, verr>>

\* the response has been delivered; the slot takes the next request
Finish(r) ==
    /\ pc[r] = "done"
    /\ pc' = [pc EXCEPT ![r] = "idle"]
    /\ op' = [op EXCEPT ![r] = "none"]
    /\ rawID' = [rawID EXCEPT ![r] = <<>>]
    /\ userID' = [userID EXCEPT ![r] = 0]
    /\ user' = [user EXCEPT ![r] = ZeroUser]
    /\ defers' = [defers EXCEPT ![r] = <<>>]
    /\ status' = [status EXCEPT ![r] = 0]
    /\ body' = [body EXCEPT ![r] = NoBody]
    /\ log' = [log EXCEPT ![r] = <<>>]
    /\ matched' = [matched EXCEPT ![r] = -1]
    /\ issued' = [issued EXCEPT ![r] = FALSE]
    /\ late' = [late EXCEPT ![r] = "no"]
    /\ UNCHANGED <<users, autoInc, u, verr>>

Next ==
    \E r \in Reqs :
        \/ Arrive(r)
        \/ Connect(r)
        \/ ParseID(r)
        \/ DecodeValidate(r)
        \/ ListExec(r)
        \/ CreateExec(r)
        \/ GetExec(r)
        \/ UpdateExec(r)
        \/ DeleteExec(r)
        \/ Finish(r)

Spec == Init /\ [][Next]_vars

\* ------------------------------------------------- Validate on its own
\* the characters the enumerated emails are written with: one of every class
\* ("a": all three, "-": local part and domain, "_": local part only) and
\* the two separators
Alphabet == {"a", "-", "_", "@", "."}
SeqsUpTo(S, n) == UNION {[1..k -> S] : k \in 0..n}
\* "not-an-email", "a@b", "a@b.co", "ann@example.com", "a b@c.de", "A1%+@x-y.ORG"
Examples == {<<"n","o","t","-","a","n","-","e","m","a","i","l">>,
             <<"a","@","b">>,
             <<"a","@","b",".","c","o">>,
             <<"a","n","n","@","e","x","a","m","p","l","e",".","c","o","m">>,
             <<"a"," ","b","@","c",".","d","e">>,
             <<"A","1","%","+","@","x","-","y",".","O","R","G">>}
ValidateInputs == [ID : {0}, Name : {"", "Ann"}, Email : SeqsUpTo(Alphabet, MaxLen) \cup Examples]

InitValidate ==
    /\ users = {}
    /\ autoInc = 1
    /\ InitRequests
    /\ u \in ValidateInputs
    /\ verr = "unset"

\* err := u.Validate(): the method reads u and writes nothing
CallValidate ==
    /\ verr = "unset"
    /\ verr' = Validate(u)
    /\ UNCHANGED <<users, autoInc, pc, op, rawID, userID, user, defers, status, body,
                   log, matched, issued, late, u>>

NextValidate == CallValidate

SpecValidate == InitValidate /\ [][NextValidate]_vars

\* ================================================================ claims
\* The pattern of section 4.1, read as an automaton over the text, one
\* character at a time: 0 start, 1 in the local part, 2 after "@", 3 in the
\* domain, 4 after the last ".", 5 and 6 one and two-or-more letters of the
\* top-level domain.
PatternStep(q, c) ==
    (IF q \in {0, 1} /\ c \in LocalChars THEN {1} ELSE {})
    \cup (IF q = 1 /\ c = "@" THEN {2} ELSE {})
    \cup (IF q \in {2, 3} /\ c \in DomainChars THEN {3} ELSE {})
    \cup (IF q = 3 /\ c = "." THEN {4} ELSE {})
    \cup (IF q = 4 /\ c \in Letters THEN {5} ELSE {})
    \cup (IF q \in {5, 6} /\ c \in Letters THEN {6} ELSE {})

RECURSIVE PatternRun(_, _)
PatternRun(qs, s) ==
    IF s = <<>> THEN qs
    ELSE PatternRun(UNION {PatternStep(q, Head(s)) : q \in qs}, Tail(s))

PatternAccepts(s) == 6 \in PatternRun({0}, s)

\* the invariant of section 3 on one User
WellFormedUser(x) == x.Name # "" /\ x.Email # <<>> /\ PatternAccepts(x.Email)

Count(lg, e) == Cardinality({k \in 1..Len(lg) : lg[k] = e})
Ids(t) == {x.ID : x \in t}

\* C1: every row of the users table, and every User in the body of a Get or
\* List response, has a non-empty name and a non-empty email that matches the
\* pattern, whatever requests ran and however they interleaved.
C1_StoredAndReturnedUsersValid ==
    /\ \A x \in users : WellFormedUser(x)
    /\ \A r \in Reqs :
          (pc[r] = "done" /\ op[r] \in {"get", "list"}) =>
              \A k \in 1..Len(body[r].data) : WellFormedUser(body[r].data[k])

\* C1 witness: a Get has answered 200 with a User while the table holds two rows.
C1_Witness ==
    /\ Cardinality(users) = 2
    /\ \E r \in Reqs : /\ pc[r] = "done" /\ op[r] = "get" /\ status[r] = StatusOK
                        /\ body[r].kind = "object"

\* C2: when a Create with a valid (name, email) answers 201, a List of the table
\* right after it has exactly one entry more than a List right before it: every
\* earlier entry is still there, and the new one carries the given name and
\* email and an id that no earlier entry had.
C2_CreateAddsExactlyOneListedEntry ==
    [][\A r \in Reqs :
        (pc[r] = "exec" /\ op[r] = "create" /\ pc'[r] = "done"
            /\ status'[r] = StatusCreated) =>
        LET before == GetAllUsers(users, NoErr).users.elems
            after == GetAllUsers(users', NoErr).users.elems
            old == {before[k] : k \in 1..Len(before)}
            new == {k \in 1..Len(after) : after[k] \notin old}
        IN  /\ Len(after) = Len(before) + 1
            /\ \A x \in old : \E k \in 1..Len(after) : after[k] = x
            /\ Cardinality(new) = 1
            /\ \A k \in new : /\ after[k].Name = user[r].Name
                               /\ after[k].Email = user[r].Email
                               /\ \A x \in old : x.ID # after[k].ID
    ]_vars

\* C2 witness: a Create has answered 201 and its row is listed beside an older one.
C2_Witness ==
    \E r \in Reqs :
        /\ pc[r] = "done" /\ op[r] = "create" /\ status[r] = StatusCreated
        /\ Cardinality(users) = 2
        /\ \E x \in users : x.ID = autoInc - 1

\* a finished Get, Update or Delete whose path id is not an integer
BadIdDone(r) ==
    pc[r] = "done" /\ op[r] \in IdOps /\ Atoi(rawID[r]).err # NoErr

\* C3 as stated: a Get, Update or Delete whose path id is not an integer answers
\* 400 and has made no store access of any kind, connection acquisition included.
C3_NoStoreAccessAtAll ==
    \A r \in Reqs : BadIdDone(r) => (status[r] = StatusBadRequest /\ log[r] = <<>>)

\* C3 amended: such a request answers 400 and never sends a query or a statement
\* to the store; its handler does acquire the connection before it parses the id,
\* and releases it when it returns.
C3_NoStatementBefore400 ==
    \A r \in Reqs :
        /\ (op[r] \in IdOps /\ Atoi(rawID[r]).err # NoErr) =>
               (Count(log[r], "query") = 0 /\ Count(log[r], "exec") = 0)
        /\ BadIdDone(r) =>
               (/\ status[r] = StatusBadRequest
                /\ body[r] = Text("Invalid user ID")
                /\ log[r] = <<"open", "close">>)

\* C3 witness: an Update with path id "abc" has answered 400.
C3_Witness ==
    \E r \in Reqs : /\ BadIdDone(r) /\ op[r] = "update"
                    /\ rawID[r] = <<"a","b","c">> /\ status[r] = StatusBadRequest

\* C4 as stated: a List whose query ran over n rows answers 200 with a JSON array
\* of exactly those n users; over no rows the array is empty, not null.
C4_ListAnswersArray ==
    \A r \in Reqs :
        (pc[r] = "done" /\ op[r] = "list" /\ matched[r] >= 0) =>
            /\ status[r] = StatusOK
            /\ body[r].kind = "array"
            /\ Len(body[r].data) = matched[r]

\* C5: an Update with a numeric id that matches no row and a valid body, whose
\* statement the store runs, answers 200 with the success message and leaves the
\* table as it was: no row is created or modified.
C5_UpdateOfMissingIdIsSuccessfulNoOp ==
    [][\A r \in Reqs :
        (pc[r] = "exec" /\ op[r] = "update" /\ pc'[r] = "done"
            /\ Matching(users, userID[r]) = 0 /\ matched'[r] # -1) =>
        /\ status'[r] = StatusOK
        /\ body'[r] = Text("User updated successfully")
        /\ users' = users
        /\ autoInc' = autoInc
    ]_vars

\* C5 witness: an Update that matched no row has answered 200 over a non-empty table.
C5_Witness ==
    \E r \in Reqs : /\ pc[r] = "done" /\ op[r] = "update" /\ matched[r] = 0
                    /\ status[r] = StatusOK /\ users # {}

\* C6 as stated: a Get that arrives after a Delete of the same id has answered
\* success answers 404.
C6_GetAfterDeleteNotFound ==
    \A r \in Reqs :
        (pc[r] = "done" /\ op[r] = "get" /\ late[r] # "no") => status[r] = StatusNotFound

\* C6 amended: a Get that arrives after a Delete of the same id has answered
\* success answers 404, provided the store had already issued that id when the
\* Delete ran.
C6_GetAfterDeleteOfIssuedIdNotFound ==
    \A r \in Reqs :
        (pc[r] = "done" /\ op[r] = "get" /\ late[r] = "issued") =>
            status[r] = StatusNotFound

\* C6 witness: such a Get has answered 404 after the store has issued every id.
C6_Witness ==
    \E r \in Reqs : /\ pc[r] = "done" /\ op[r] = "get" /\ late[r] = "issued"
                    /\ matched[r] = 0 /\ status[r] = StatusNotFound
                    /\ autoInc > MaxId

\* C7: for an id the table does not hold, GetUser returns an error and no User,
\* and a Get whose query finds no row with its id answers 404 with the plain
\* not-found message and no User in the body.
C7_GetOfMissingIdNotFound ==
    /\ \A i \in IDs \ Ids(users) :
          GetUser(users, i, NoErr).user.isNil /\ GetUser(users, i, NoErr).err = ErrNoRows
    /\ \A r \in Reqs :
          (pc[r] = "done" /\ op[r] = "get" /\ matched[r] = 0) =>
              /\ status[r] = StatusNotFound
              /\ body[r] = Text("User not found")

\* C7 witness: a Get of an id the table does not hold has answered 404.
C7_Witness ==
    \E r \in Reqs : /\ pc[r] = "done" /\ op[r] = "get" /\ matched[r] = 0
                    /\ status[r] = StatusNotFound /\ users # {}

\* C8: a handler closes the connection it acquired exactly once, by the time it
\* has returned on any path, and never before: while it runs the connection is
\* open, and no finished request holds an open one.
C8_ConnectionClosedExactlyOnce ==
    \A r \in Reqs :
        /\ Count(log[r], "open") <= 1
        /\ Count(log[r], "close") <= Count(log[r], "open")
        /\ pc[r] \in {"parse", "decode", "exec"} =>
               (Count(log[r], "open") = 1 /\ Count(log[r], "close") = 0)
        /\ pc[r] = "done" =>
               (/\ Count(log[r], "open") = 1
                /\ Count(log[r], "close") = 1
                /\ log[r][Len(log[r])] = "close")

\* C8 witness: an Update refused for its body has returned with its connection closed.
C8_Witness ==
    \E r \in Reqs : /\ pc[r] = "done" /\ op[r] = "update"
                    /\ status[r] = StatusBadRequest
                    /\ body[r] = Text(ErrInvalidEmail)
                    /\ log[r] = <<"open", "close">>

\* C9: Validate answers "name is required" when the name is empty (whatever the
\* email), else "email is required" when the email is empty, else "invalid email
\* format" when the email does not match the pattern, else no error; it rejects
\* "not-an-email" and "a@b", accepts "a@b.co", and leaves the user as it was.
C9_ValidateOrderAndPattern ==
    /\ u \in ValidateInputs
    /\ verr # "unset" =>
        /\ verr = (IF u.Name = "" THEN ErrNameRequired
                   ELSE IF u.Email = <<>> THEN ErrEmailRequired
                   ELSE IF ~PatternAccepts(u.Email) THEN ErrInvalidEmail
                   ELSE NoErr)
        /\ (u.Name # "" /\ u.Email = <<"n","o","t","-","a","n","-","e","m","a","i","l">>)
               => verr = ErrInvalidEmail
        /\ (u.Name # "" /\ u.Email = <<"a","@","b">>) => verr = ErrInvalidEmail
        /\ (u.Name # "" /\ u.Email = <<"a","@","b",".","c","o">>) => verr = NoErr

\* C9 witness: Validate has rejected "a@b" for its format.
C9_Witness ==
    /\ u.Name = "Ann" /\ u.Email = <<"a","@","b">> /\ verr = ErrInvalidEmail

\* C10: an Update that answers success sets the name and email of the row whose
\* id is the path id to those of the body and changes nothing else: that row
\* keeps its id whatever id the body carries, the ids in the table are the same,
\* and every other row is as it was.
C10_UpdateChangesOnlyItsRow ==
    [][\A r \in Reqs :
        (pc[r] = "exec" /\ op[r] = "update" /\ pc'[r] = "done"
            /\ status'[r] = StatusOK) =>
        /\ Ids(users') = Ids(users)
        /\ Cardinality(users') = Cardinality(users)
        /\ \A x \in users : x.ID # userID[r] => x \in users'
        /\ \A x \in users : x.ID = userID[r] =>
               [ID |-> userID[r], Name |-> user[r].Name, Email |-> user[r].Email] \in users'
        /\ autoInc' = autoInc
    ]_vars

\* C10 witness: an Update of one of two rows has answered success.
C10_Witness ==
    \E r \in Reqs : /\ pc[r] = "done" /\ op[r] = "update" /\ matched[r] = 1
                    /\ status[r] = StatusOK /\ Cardinality(users) = 2

====
